---- MODULE Spec2Model ----
(***************************************************************************)
(* Cargo stowage system: the greedy shelf planner optimize_cargo_placement *)
(* and the /bin-packing handler optimize_bin_packing of                    *)
(* backend/app/api/endpoints/optimization.py, over the Item, Container and *)
(* StowagePlan tables of backend/app/models/models.py.                     *)
(*                                                                         *)
(* Float columns are modelled by integers.  A nullable expiry_date is a    *)
(* sequence: <<>> is None, <<t>> is the timestamp t.                       *)
(***************************************************************************)
EXTENDS Integers, Sequences, FiniteSets, TLC

(* ------------------------------ bounds --------------------------------- *)
\* longest item list of the row family (a row of more than RowWindow items)
MaxItems == 7
\* longest item list of the box family (the three extents vary freely)
MaxBoxes == 3
\* longest item list of the order family (priority and expiry vary freely)
MaxMixed == 2
\* longest item list of the score family (zero extents and priorities)
MaxScored == 2
\* priorities are 1..MaxPriority
MaxPriority == 2
\* expiry timestamps are 1..MaxExpiry
MaxExpiry == 2
\* longest items table of the handler's database
MaxDbItems == 2
\* planning and scoring each take 0..MaxDur seconds
MaxDur == 2
\* number of /bin-packing requests served
MaxCalls == 1

(* -------------------------- program constants -------------------------- *)
\* item_positions[-5:], the trailing window of the next-row branch
RowWindow == 5
\* item_positions[-10:], the trailing window of the next-layer branch
LayerWindow == 10
\* if optimization_time > 1.0
Budget == 1

(* ------------------------------ helpers -------------------------------- *)
Max(S) == CHOOSE m \in S : \A n \in S : n <= m

\* seq[-n:]
LastN(seq, n) ==
    IF Len(seq) <= n THEN seq ELSE SubSeq(seq, Len(seq) - n + 1, Len(seq))

Range(seq) == {seq[i] : i \in 1..Len(seq)}

(* ------------------------------- inputs -------------------------------- *)
NoExpiry == <<>>

Expiries == {NoExpiry} \cup {<<t>> : t \in 1..MaxExpiry}

\* a row of the items table without its id, position and associations
RowKinds ==
    { [width |-> 1, height |-> 1, depth |-> 1, weight |-> 1,
       priority |-> 1, expiry_date |-> NoExpiry],
      [width |-> 1, height |-> 2, depth |-> 1, weight |-> 2,
       priority |-> 2, expiry_date |-> NoExpiry],
      [width |-> 4, height |-> 1, depth |-> 2, weight |-> 1,
       priority |-> 1, expiry_date |-> NoExpiry] }

Extents == {1, 3}

\* every box over Extents, one priority, no expiry
BoxKinds ==
    [width : Extents, height : Extents, depth : Extents,
     weight : {2}, priority : {1}, expiry_date : {NoExpiry}]

\* a box that fits and a box that fits on no axis, every priority and expiry
MixedKinds ==
    [width : {1}, height : {1}, depth : {1},
     weight : {2}, priority : 1..MaxPriority, expiry_date : Expiries]
    \cup
    [width : {3}, height : {3}, depth : {3},
     weight : {2}, priority : 1..MaxPriority, expiry_date : Expiries]

\* boxes with zero extents and items of priority 0
ScoreKinds ==
    [width : {0, 2}, height : {0, 2}, depth : {0, 2},
     weight : {2}, priority : {0, 1}, expiry_date : {NoExpiry}]

ZeroContainer ==
    [id |-> 4, width |-> 0, height |-> 0, depth |-> 0, max_weight |-> 2]

\* the scenario of three 4x4x4 items in a 10x10x10 container
ScenarioContainer ==
    [id |-> 5, width |-> 10, height |-> 10, depth |-> 10, max_weight |-> 10]

ScenarioKinds ==
    << [width |-> 4, height |-> 4, depth |-> 4, weight |-> 1,
        priority |-> 5, expiry_date |-> NoExpiry],
       [width |-> 4, height |-> 4, depth |-> 4, weight |-> 1,
        priority |-> 5, expiry_date |-> NoExpiry],
       [width |-> 4, height |-> 4, depth |-> 4, weight |-> 1,
        priority |-> 1, expiry_date |-> NoExpiry] >>

RowContainer ==
    [id |-> 1, width |-> 6, height |-> 3, depth |-> 1, max_weight |-> 4]

MixedContainer ==
    [id |-> 2, width |-> 2, height |-> 2, depth |-> 2, max_weight |-> 2]

\* the rows of a kinds sequence, numbered by their primary key
WithIds(kinds) ==
    [i \in 1..Len(kinds) |->
        [id |-> i, width |-> kinds[i].width, height |-> kinds[i].height,
         depth |-> kinds[i].depth, weight |-> kinds[i].weight,
         priority |-> kinds[i].priority,
         expiry_date |-> kinds[i].expiry_date]]

SeqsUpTo(S, n) == UNION {[1..k -> S] : k \in 0..n}

\* (container, items) argument pairs the planner is called with
PlannerInputs ==
    {<<RowContainer, WithIds(ks)>> : ks \in SeqsUpTo(RowKinds, MaxItems)}
    \cup
    {<<MixedContainer, WithIds(ks)>> : ks \in SeqsUpTo(BoxKinds, MaxBoxes)}
    \cup
    {<<MixedContainer, WithIds(ks)>> : ks \in SeqsUpTo(MixedKinds, MaxMixed)}
    \cup
    {<<c, WithIds(ks)>> : c \in {ZeroContainer, MixedContainer},
                          ks \in SeqsUpTo(ScoreKinds, MaxScored)}
    \cup
    {<<ScenarioContainer, WithIds(ScenarioKinds)>>}

(* ----------------------- optimize_cargo_placement ---------------------- *)
\* SortKey without the negation of the priority
SortKey_AscendingPriority(x) ==
    [neg_priority |-> x.priority,
     second |-> IF x.expiry_date = NoExpiry
                THEN [type |-> "float", val |-> 0]
                ELSE [type |-> "datetime", val |-> x.expiry_date[1]]]

\* key=lambda x: (-x.priority, x.expiry_date or float('inf'))
SortKey(x) ==
    [neg_priority |-> 0 - x.priority,
     second |-> IF x.expiry_date = NoExpiry
                THEN [type |-> "float", val |-> 0]
                ELSE [type |-> "datetime", val |-> x.expiry_date[1]]]

\* tuple comparison a < b reaches datetime < float: TypeError
KeyCompareRaises(a, b) ==
    /\ a.neg_priority = b.neg_priority
    /\ a.second.type # b.second.type

\* tuple comparison a < b, where it is defined
KeyLess(a, b) ==
    \/ a.neg_priority < b.neg_priority
    \/ /\ a.neg_priority = b.neg_priority
       /\ a.second.type = "datetime"
       /\ b.second.type = "datetime"
       /\ a.second.val < b.second.val

\* sorted() raises TypeError exactly when two keys it has to order are
\* incomparable
SortRaises(items) ==
    \E i, j \in 1..Len(items) :
        i # j /\ KeyCompareRaises(SortKey(items[i]), SortKey(items[j]))

\* stable insertion of x into the sorted prefix
RECURSIVE InsertSorted(_, _)
InsertSorted(prefix, x) ==
    IF prefix = <<>> THEN <<x>>
    ELSE IF KeyLess(SortKey(x), SortKey(prefix[Len(prefix)]))
         THEN Append(InsertSorted(SubSeq(prefix, 1, Len(prefix) - 1), x),
                     prefix[Len(prefix)])
         ELSE Append(prefix, x)

\* sorted(items, key=...): stable, ascending in the key
RECURSIVE sorted(_)
sorted(items) ==
    IF items = <<>> THEN <<>>
    ELSE InsertSorted(sorted(SubSeq(items, 1, Len(items) - 1)),
                      items[Len(items)])

Position(item, x, y, z) ==
    [item_id |-> item.id, position_x |-> x, position_y |-> y,
     position_z |-> z, rotation_x |-> 0, rotation_y |-> 0, rotation_z |-> 0]

\* WindowMaxHeight that never advances the row
WindowMaxHeight_Zero(items, item_positions) == 0

\* max([i.height for i in items if i.id in [p["item_id"] for p in
\*      item_positions[-5:]]] or [0])
WindowMaxHeight(items, item_positions) ==
    LET ids == {p.item_id : p \in Range(LastN(item_positions, RowWindow))}
    IN  Max({items[i].height : i \in {j \in 1..Len(items) : items[j].id \in ids}}
            \cup {0})

\* WindowMaxDepth over every item, placed or not
WindowMaxDepth_AllItems(items, item_positions) ==
    Max({items[i].depth : i \in 1..Len(items)} \cup {0})

\* max([i.depth for i in items if i.id in [p["item_id"] for p in
\*      item_positions[-10:]]] or [0])
WindowMaxDepth(items, item_positions) ==
    LET ids == {p.item_id : p \in Range(LastN(item_positions, LayerWindow))}
    IN  Max({items[i].depth : i \in {j \in 1..Len(items) : items[j].id \in ids}}
            \cup {0})

RECURSIVE PlaceLoop(_, _, _, _, _, _, _, _)

\* ContainerFull with continue in the place of break
ContainerFull_Continue(container, items, order, k, x, y, z, item_positions) ==
    PlaceLoop(container, items, order, k + 1, x, y, z, item_positions)

\* the else branch of the loop body: break
ContainerFull(container, items, order, k, x, y, z, item_positions) ==
    item_positions

\* the for loop over the sorted items, from the k-th one on
PlaceLoop(container, items, order, k, x, y, z, item_positions) ==
    IF k > Len(order) THEN item_positions
    ELSE LET item == order[k] IN
      IF x + item.width <= container.width
      THEN PlaceLoop(container, items, order, k + 1,
                     x + item.width, y, z,
                     Append(item_positions, Position(item, x, y, z)))
      ELSE IF y + item.height <= container.height
      THEN LET ny == y + WindowMaxHeight(items, item_positions) IN
           PlaceLoop(container, items, order, k + 1,
                     0 + item.width, ny, z,
                     Append(item_positions, Position(item, 0, ny, z)))
      ELSE IF z + item.depth <= container.depth
      THEN LET nz == z + WindowMaxDepth(items, item_positions) IN
           PlaceLoop(container, items, order, k + 1,
                     0 + item.width, 0, nz,
                     Append(item_positions, Position(item, 0, 0, nz)))
      ELSE ContainerFull(container, items, order, k, x, y, z, item_positions)

\* the call optimize_cargo_placement(container, items): the exception it
\* raises ("" when it returns) and the list it returns
optimize_cargo_placement(container, items) ==
    IF SortRaises(items)
    THEN [called |-> TRUE, raised |-> "TypeError", value |-> <<>>]
    ELSE [called |-> TRUE, raised |-> "",
          value |-> PlaceLoop(container, items, sorted(items), 1, 0, 0, 0, <<>>)]

(* ------------------------------- scores -------------------------------- *)
\* Scores are kept in thousandths (100000 is the score 100), division
\* rounding down.
RECURSIVE SqrtBetween(_, _, _)
SqrtBetween(n, lo, hi) ==
    IF lo >= hi THEN lo
    ELSE LET mid == (lo + hi + 1) \div 2 IN
         IF mid * mid <= n THEN SqrtBetween(n, mid, hi)
         ELSE SqrtBetween(n, lo, mid - 1)

\* np.sqrt(n), in thousandths
MilliSqrt(n) == SqrtBetween(n * 1000000, 0, 40000)

Min(a, b) == IF a <= b THEN a ELSE b

\* next((i for i in items if i.id == pos["item_id"]), None), as a sequence
FindItem(items, id) ==
    LET found == {j \in 1..Len(items) : items[j].id = id}
    IN  IF found = {} THEN <<>>
        ELSE <<items[CHOOSE j \in found : \A k \in found : j <= k]>>

RECURSIVE ItemVolume(_, _)
ItemVolume(items, item_positions) ==
    IF item_positions = <<>> THEN 0
    ELSE LET it == FindItem(items, item_positions[1].item_id) IN
         (IF it = <<>> THEN 0 ELSE it[1].width * it[1].height * it[1].depth)
         + ItemVolume(items, Tail(item_positions))

\* calculate_space_efficiency without the cap at 100
calculate_space_efficiency_NoCap(container, items, item_positions) ==
    LET container_volume == container.width * container.height * container.depth
    IN  IF container_volume > 0
        THEN (ItemVolume(items, item_positions) * 100000) \div container_volume
        ELSE 0

calculate_space_efficiency(container, items, item_positions) ==
    LET container_volume == container.width * container.height * container.depth
    IN  IF container_volume > 0
        THEN Min((ItemVolume(items, item_positions) * 100000)
                     \div container_volume, 100000)
        ELSE 0

\* the extent of the placed item on one axis, 0 when the item is not found
ExtentOf(items, pos, axis) ==
    LET it == FindItem(items, pos.item_id) IN
    IF it = <<>> THEN 0
    ELSE IF axis = "width" THEN it[1].width
    ELSE IF axis = "height" THEN it[1].height
    ELSE it[1].depth

Accessible(container, items, pos) ==
    \/ pos.position_x = 0
    \/ pos.position_y = 0
    \/ pos.position_z = 0
    \/ pos.position_x + ExtentOf(items, pos, "width") >= container.width
    \/ pos.position_y + ExtentOf(items, pos, "height") >= container.height
    \/ pos.position_z + ExtentOf(items, pos, "depth") >= container.depth

calculate_accessibility(container, items, item_positions) ==
    LET total_items == Len(item_positions)
        accessible_items ==
            Cardinality({k \in 1..total_items :
                            Accessible(container, items, item_positions[k])})
    IN  IF total_items = 0 THEN 100000
        ELSE (accessible_items * 100000) \div total_items

RECURSIVE WeightedDistance(_, _)
WeightedDistance(items, item_positions) ==
    IF item_positions = <<>> THEN 0
    ELSE LET pos == item_positions[1]
             it == FindItem(items, pos.item_id)
         IN  (IF it = <<>> THEN 0
              ELSE MilliSqrt(pos.position_x * pos.position_x
                             + pos.position_y * pos.position_y
                             + pos.position_z * pos.position_z)
                   * it[1].priority)
             + WeightedDistance(items, Tail(item_positions))

RECURSIVE PriorityWeights(_, _)
PriorityWeights(items, item_positions) ==
    IF item_positions = <<>> THEN 0
    ELSE LET it == FindItem(items, item_positions[1].item_id) IN
         (IF it = <<>> THEN 0 ELSE it[1].priority)
         + PriorityWeights(items, Tail(item_positions))

\* The distances are numpy floats, so a zero divisor raises nothing: a zero
\* sum(priority_weights) makes weighted_avg_distance nan, a zero
\* max_distance makes the quotient nan or inf; min(nan, 100) is nan,
\* max(0, nan) and max(0, -inf) are 0.
calculate_retrieval_time(container, items, item_positions) ==
    LET max_distance == MilliSqrt(container.width * container.width
                                  + container.height * container.height
                                  + container.depth * container.depth)
        priority_sum == PriorityWeights(items, item_positions)
    IN  IF item_positions = <<>> THEN 100000
        ELSE IF priority_sum = 0 \/ max_distance = 0 THEN 0
        ELSE LET weighted_avg_distance ==
                     WeightedDistance(items, item_positions) \div priority_sum
                 retrieval_score ==
                     100000 - (weighted_avg_distance * 100000) \div max_distance
             IN  Max({0, Min(retrieval_score, 100000)})

\* lines 71-76 of the handler
Scores(container, items, item_positions) ==
    LET se == calculate_space_efficiency(container, items, item_positions)
        ac == calculate_accessibility(container, items, item_positions)
        rt == calculate_retrieval_time(container, items, item_positions)
    IN  [space_efficiency |-> se, accessibility |-> ac, retrieval_time |-> rt,
         overall_score |-> (se * 4 + ac * 3 + rt * 3) \div 10]

(* --------------------------- database inputs --------------------------- *)
DbKinds ==
    { [width |-> 1, height |-> 1, depth |-> 1, weight |-> 1,
       priority |-> 1, expiry_date |-> NoExpiry],
      [width |-> 1, height |-> 2, depth |-> 1, weight |-> 2,
       priority |-> 2, expiry_date |-> NoExpiry],
      [width |-> 3, height |-> 3, depth |-> 3, weight |-> 1,
       priority |-> 1, expiry_date |-> <<1>>],
      [width |-> 2, height |-> 1, depth |-> 1, weight |-> 1,
       priority |-> 2, expiry_date |-> <<2>>] }

\* the containers table
DbContainers == {RowContainer, MixedContainer}

\* a container_id no row of the containers table has
MissingContainerId == 3

\* position, rotation and associations of a row of the items table: the
\* column defaults, or what POST /items/{id}/position stored earlier
FreshPlace ==
    [position_x |-> 0, position_y |-> 0, position_z |-> 0,
     rotation_x |-> 0, rotation_y |-> 0, rotation_z |-> 0, containers |-> <<>>]

StoredPlace ==
    [position_x |-> 1, position_y |-> 1, position_z |-> 1,
     rotation_x |-> 0, rotation_y |-> 0, rotation_z |-> 90,
     containers |-> <<RowContainer.id>>]

ItemRow(i, kind, place) ==
    [id |-> i, width |-> kind.width, height |-> kind.height,
     depth |-> kind.depth, weight |-> kind.weight, priority |-> kind.priority,
     expiry_date |-> kind.expiry_date,
     position_x |-> place.position_x, position_y |-> place.position_y,
     position_z |-> place.position_z, rotation_x |-> place.rotation_x,
     rotation_y |-> place.rotation_y, rotation_z |-> place.rotation_z,
     containers |-> place.containers]

\* the items tables the handler is run on
DbItemTables ==
    UNION { { [i \in 1..n |-> ItemRow(i, ks[i], ps[i])] :
                ks \in [1..n -> DbKinds],
                ps \in [1..n -> {FreshPlace, StoredPlace}] } :
            n \in 0..MaxDbItems }

(* ------------------------------- state --------------------------------- *)
VARIABLES
    pc,                \* position of the call
    container,         \* the container argument / the handler's container
    items,             \* the items argument / the handler's items
    planned,           \* what optimize_cargo_placement did
    db,                \* the committed tables: items and stowage plans
    session,           \* the tables as the request's Session sees them
    now,               \* time.time()
    start_time,
    optimization_time, \* <<>> until line 61 has set it
    scores,            \* <<>> until lines 71-76 have set them
    idx,               \* position of the loop of line 105 in item_positions
    exc,               \* <<e>> once the except clause of line 123 caught e
    response,          \* <<r>> once the call has answered
    before,            \* the committed tables when the call began
    calls              \* requests begun so far

vars == <<pc, container, items, planned, db, session, now, start_time,
          optimization_time, scores, idx, exc, response, before, calls>>

handlerVars == <<db, session, now, start_time, optimization_time, scores,
                 idx, exc, response, before, calls>>

NotCalled == [called |-> FALSE, raised |-> "", value |-> <<>>]

NoText == [text |-> "", elapsed |-> <<>>]

(* ------------------- the planner as a pure function -------------------- *)
InitPlanner ==
    /\ pc = "args"
    /\ \E inp \in PlannerInputs : container = inp[1] /\ items = inp[2]
    /\ planned = NotCalled
    /\ db = [items |-> <<>>, plans |-> <<>>]
    /\ session = db
    /\ now = 0
    /\ start_time = 0
    /\ optimization_time = <<>>
    /\ scores = <<>>
    /\ idx = 0
    /\ exc = <<>>
    /\ response = <<>>
    /\ before = db
    /\ calls = 0

CallPlanner ==
    /\ pc = "args"
    /\ planned' = optimize_cargo_placement(container, items)
    /\ pc' = IF planned'.raised = "" THEN "returned" ELSE "raised"
    /\ UNCHANGED <<container, items>>
    /\ UNCHANGED handlerVars

\* the three score functions applied to what the planner returned
CallScorer ==
    /\ pc = "returned"
    /\ scores' = <<Scores(container, items, planned.value)>>
    /\ pc' = "scored"
    /\ UNCHANGED <<container, items, planned, db, session, now, start_time,
                   optimization_time, idx, exc, response, before, calls>>

NextPlanner == CallPlanner \/ CallScorer

SpecPlanner == InitPlanner /\ [][NextPlanner]_vars

(* ---------------------- optimize_bin_packing --------------------------- *)
Init ==
    /\ pc = "idle"
    /\ container = <<>>
    /\ items = <<>>
    /\ planned = NotCalled
    /\ \E tbl \in DbItemTables : db = [items |-> tbl, plans |-> <<>>]
    /\ session = db
    /\ now = 0
    /\ start_time = 0
    /\ optimization_time = <<>>
    /\ scores = <<>>
    /\ idx = 0
    /\ exc = <<>>
    /\ response = <<>>
    /\ before = db
    /\ calls = 0

\* raise HTTPException(status_code=404, ...) of lines 44 and 52
NotFound(what) ==
    [status |-> 404, detail |-> what, cause |-> NoText, body |-> <<>>]

\* the exceptions the try block sees
BudgetError(t) ==
    [type |-> "HTTPException", text |-> "Optimization took too long",
     elapsed |-> <<t>>]

PlannerError == [type |-> "TypeError", text |-> "'<' not supported",
                 elapsed |-> <<>>]

DatabaseError == [type |-> "OperationalError", text |-> "database error",
                  elapsed |-> <<>>]

\* str(e): an HTTPException built from keyword arguments prints as the empty
\* string where the framework defines no __str__, as its detail where it does
StrOf(e) ==
    IF e.type = "HTTPException"
    THEN {NoText, [text |-> e.text, elapsed |-> e.elapsed]}
    ELSE {[text |-> e.text, elapsed |-> e.elapsed]}

\* lines 123-128: db.rollback() and the 500 response wrapping str(e)
Except(e) ==
    /\ exc' = <<e>>
    /\ session' = db
    /\ \E s \in StrOf(e) :
          response' = <<[status |-> 500,
                         detail |-> "Error during optimization",
                         cause |-> s, body |-> <<>>]>>
    /\ pc' = "responded"

\* Begin without the test of lines 51-55 for an empty items table
Begin_NoEmptyCheck ==
    /\ pc \in {"idle", "responded"}
    /\ calls < MaxCalls
    /\ calls' = calls + 1
    /\ before' = db
    /\ session' = db
    /\ planned' = NotCalled
    /\ optimization_time' = <<>>
    /\ scores' = <<>>
    /\ idx' = 0
    /\ exc' = <<>>
    /\ start_time' = now
    /\ \E container_id \in {c.id : c \in DbContainers} \cup {MissingContainerId} :
         LET rows == {c \in DbContainers : c.id = container_id} IN
         IF rows = {}
         THEN /\ response' = <<NotFound("Container not found")>>
              /\ pc' = "responded"
              /\ container' = <<>>
              /\ items' = <<>>
         ELSE /\ response' = <<>>
              /\ pc' = "planning"
              /\ container' = CHOOSE c \in rows : TRUE
              /\ items' = db.items
    /\ UNCHANGED <<db, now>>

\* lines 42-58: a request arrives; both lookups, then the timer starts
Begin ==
    /\ pc \in {"idle", "responded"}
    /\ calls < MaxCalls
    /\ calls' = calls + 1
    /\ before' = db
    /\ session' = db
    /\ planned' = NotCalled
    /\ optimization_time' = <<>>
    /\ scores' = <<>>
    /\ idx' = 0
    /\ exc' = <<>>
    /\ start_time' = now
    /\ \E container_id \in {c.id : c \in DbContainers} \cup {MissingContainerId} :
         LET rows == {c \in DbContainers : c.id = container_id} IN
         IF rows = {}
         THEN /\ response' = <<NotFound("Container not found")>>
              /\ pc' = "responded"
              /\ container' = <<>>
              /\ items' = <<>>
         ELSE IF db.items = <<>>
         THEN /\ response' = <<NotFound("No items found to optimize")>>
              /\ pc' = "responded"
              /\ container' = CHOOSE c \in rows : TRUE
              /\ items' = <<>>
         ELSE /\ response' = <<>>
              /\ pc' = "planning"
              /\ container' = CHOOSE c \in rows : TRUE
              /\ items' = db.items
    /\ UNCHANGED <<db, now>>

\* lines 60-61: the planner runs for d seconds, then the elapsed time is read
Plan ==
    /\ pc = "planning"
    /\ \E d \in 0..MaxDur : now' = now + d
    /\ planned' = optimize_cargo_placement(container, items)
    /\ IF planned'.raised # ""
       THEN /\ Except(PlannerError)
            /\ UNCHANGED optimization_time
       ELSE /\ optimization_time' = <<now' - start_time>>
            /\ pc' = "budget"
            /\ UNCHANGED <<exc, session, response>>
    /\ UNCHANGED <<container, items, db, start_time, scores, idx, before, calls>>

\* CheckBudget without the comparison
CheckBudget_NoCheck ==
    /\ pc = "budget"
    /\ pc' = "scoring"
    /\ UNCHANGED <<exc, session, response>>
    /\ UNCHANGED <<container, items, planned, db, now, start_time,
                   optimization_time, scores, idx, before, calls>>

\* lines 64-68: the time constraint
CheckBudget ==
    /\ pc = "budget"
    /\ IF optimization_time[1] > Budget
       THEN Except(BudgetError(optimization_time[1]))
       ELSE /\ pc' = "scoring"
            /\ UNCHANGED <<exc, session, response>>
    /\ UNCHANGED <<container, items, planned, db, now, start_time,
                   optimization_time, scores, idx, before, calls>>

\* lines 71-76: the three scores and the overall score, taking d seconds
Score ==
    /\ pc = "scoring"
    /\ \E d \in 0..MaxDur : now' = now + d
    /\ scores' = <<Scores(container, items, planned.value)>>
    /\ pc' = "saving"
    /\ UNCHANGED <<container, items, planned, db, session, start_time,
                   optimization_time, idx, exc, response, before, calls>>

\* lines 79-99: the StowagePlan row
NewPlan ==
    [id |-> Len(db.plans) + 1,
     name |-> container.id,
     description |-> optimization_time[1],
     space_efficiency_score |-> scores[1].space_efficiency,
     accessibility_score |-> scores[1].accessibility,
     retrieval_time_score |-> scores[1].retrieval_time,
     overall_score |-> scores[1].overall_score,
     visualization_data |->
        [container |-> [id |-> container.id, width |-> container.width,
                        height |-> container.height, depth |-> container.depth],
         item_positions |-> planned.value]]

\* lines 100-102: db.add(stowage_plan); db.commit(); db.refresh(stowage_plan)
SavePlan ==
    /\ pc = "saving"
    /\ session' = [session EXCEPT !.plans = Append(@, NewPlan)]
    /\ db' = session'
    /\ idx' = 1
    /\ pc' = "updating"
    /\ UNCHANGED <<container, items, planned, now, start_time,
                   optimization_time, scores, exc, response, before, calls>>

\* PlaceRow without the test of line 116
PlaceRow_AlwaysAppend(row, item_pos) ==
    [row EXCEPT !.position_x = item_pos.position_x,
                !.position_y = item_pos.position_y,
                !.position_z = item_pos.position_z,
                !.rotation_x = item_pos.rotation_x,
                !.rotation_y = item_pos.rotation_y,
                !.rotation_z = item_pos.rotation_z,
                !.containers = Append(@, container.id)]

\* lines 108-117 on the row the query of line 106 found
PlaceRow(row, item_pos) ==
    [row EXCEPT !.position_x = item_pos.position_x,
                !.position_y = item_pos.position_y,
                !.position_z = item_pos.position_z,
                !.rotation_x = item_pos.rotation_x,
                !.rotation_y = item_pos.rotation_y,
                !.rotation_z = item_pos.rotation_z,
                !.containers = IF \E k \in 1..Len(@) : @[k] = container.id
                               THEN @ ELSE Append(@, container.id)]

\* lines 105-117: one pass of the loop over item_positions
UpdateItem ==
    /\ pc = "updating"
    /\ idx <= Len(planned.value)
    /\ LET item_pos == planned.value[idx] IN
       session' = [session EXCEPT !.items =
                      [k \in 1..Len(@) |->
                          IF @[k].id = item_pos.item_id
                          THEN PlaceRow(@[k], item_pos) ELSE @[k]]]
    /\ idx' = idx + 1
    /\ UNCHANGED <<pc, container, items, planned, db, now, start_time,
                   optimization_time, scores, exc, response, before, calls>>

\* lines 119-121: the loop is over; db.commit() and the plan is returned
FinalCommit ==
    /\ pc = "updating"
    /\ idx > Len(planned.value)
    /\ db' = session
    /\ response' = <<[status |-> 200, detail |-> "", cause |-> NoText,
                      body |-> <<db.plans[Len(db.plans)]>>]>>
    /\ pc' = "responded"
    /\ UNCHANGED <<container, items, planned, session, now, start_time,
                   optimization_time, scores, idx, exc, before, calls>>

\* a database call of lines 100-119 (add, commit, query) raises
Fault ==
    /\ pc \in {"saving", "updating"}
    /\ Except(DatabaseError)
    /\ UNCHANGED <<container, items, planned, db, now, start_time,
                   optimization_time, scores, idx, before, calls>>

Next ==
    \/ Begin
    \/ Plan
    \/ CheckBudget
    \/ Score
    \/ SavePlan
    \/ UpdateItem
    \/ FinalCommit
    \/ Fault

Spec == Init /\ [][Next]_vars

(* ------------------------ planner properties --------------------------- *)
ItemOf(its, id) == CHOOSE i \in Range(its) : i.id = id

\* the container and every item have positive extents
PositiveExtents ==
    /\ container.width > 0 /\ container.height > 0 /\ container.depth > 0
    /\ \A i \in Range(items) : i.width > 0 /\ i.height > 0 /\ i.depth > 0

PlacedItem(p) == ItemOf(items, p.item_id)

Contained(p) ==
    /\ p.position_x >= 0
    /\ p.position_y >= 0
    /\ p.position_z >= 0
    /\ p.position_x + PlacedItem(p).width <= container.width
    /\ p.position_y + PlacedItem(p).height <= container.height
    /\ p.position_z + PlacedItem(p).depth <= container.depth

\* C1: every placement the planner returns lies inside the container on all
\* three axes.
C1_Containment ==
    (pc = "returned" /\ PositiveExtents) => \A p \in Range(planned.value) : Contained(p)

\* the open intervals (a, a + la) and (b, b + lb) intersect
IntervalsOverlap(a, la, b, lb) == a < b + lb /\ b < a + la

BoxesOverlap(p, q) ==
    /\ IntervalsOverlap(p.position_x, PlacedItem(p).width,
                        q.position_x, PlacedItem(q).width)
    /\ IntervalsOverlap(p.position_y, PlacedItem(p).height,
                        q.position_y, PlacedItem(q).height)
    /\ IntervalsOverlap(p.position_z, PlacedItem(p).depth,
                        q.position_z, PlacedItem(q).depth)

\* C2: no two placements the planner returns occupy intersecting boxes.
C2_NonOverlap ==
    (pc = "returned" /\ PositiveExtents) =>
        \A i, j \in 1..Len(planned.value) :
            i # j => ~BoxesOverlap(planned.value[i], planned.value[j])

RECURSIVE PlacedWeight(_, _)
PlacedWeight(its, positions) ==
    IF positions = <<>> THEN 0
    ELSE ItemOf(its, positions[1].item_id).weight
         + PlacedWeight(its, Tail(positions))

\* C3: the placed items of a returned PlacementSet weigh no more than the
\* container's max_weight.
C3_WeightFeasible ==
    pc = "returned" =>
        PlacedWeight(items, planned.value) <= container.max_weight

\* C7: a call of the planner returns a PlacementSet and raises nothing.
C7_PlannerNeverRaises == pc # "raised"

\* the order the loop takes the items in; none when sorted() raised
ProcessingOrder == IF planned.raised = "" THEN sorted(items) ELSE <<>>

ProcessedBefore(a, b) ==
    \E i, j \in 1..Len(ProcessingOrder) :
        /\ i < j
        /\ ProcessingOrder[i].id = a.id
        /\ ProcessingOrder[j].id = b.id

\* C8: among the items of one priority the planner takes the items in
\* ascending expiry order, the items without expiry after those with one.
C8_ExpiryOrdering ==
    pc # "args" =>
        \A a, b \in Range(items) :
            /\ a.priority = b.priority
            /\ a.expiry_date # NoExpiry
            /\ \/ b.expiry_date = NoExpiry
               \/ /\ b.expiry_date # NoExpiry
                  /\ a.expiry_date[1] < b.expiry_date[1]
            => ProcessedBefore(a, b)

\* C9: in a returned PlacementSet an item of strictly higher priority is
\* placed before every placed item of lower priority.
C9_PriorityOrdering ==
    pc = "returned" =>
        \A i, j \in 1..Len(planned.value) :
            PlacedItem(planned.value[i]).priority
                > PlacedItem(planned.value[j]).priority
            => i < j

\* a returned set where the planner placed a higher-priority item first
\* although it came later in the input
C9_Witness ==
    /\ pc = "returned"
    /\ \E i, j \in 1..Len(planned.value) :
          /\ i < j
          /\ PlacedItem(planned.value[i]).priority
               > PlacedItem(planned.value[j]).priority
          /\ planned.value[i].item_id > planned.value[j].item_id

\* C10: the returned PlacementSet is the first k items of the sorted order,
\* each once and in that order: nothing after the first item that fits
\* nowhere is placed.
C10_StopAtFirstUnfittable ==
    pc = "returned" =>
        /\ Len(planned.value) <= Len(items)
        /\ \A i \in 1..Len(planned.value) :
              planned.value[i].item_id = sorted(items)[i].id
        /\ \A i, j \in 1..Len(planned.value) :
              planned.value[i].item_id = planned.value[j].item_id => i = j

\* seq without its k-th element
RemoveAt(seq, k) == SubSeq(seq, 1, k - 1) \o SubSeq(seq, k + 1, Len(seq))

\* the planner stopped at an item after placing some, and without that item
\* it would have placed more: a later item fits
C10_Witness ==
    /\ pc = "returned"
    /\ Len(planned.value) >= 1
    /\ Len(planned.value) + 1 < Len(items)
    /\ Len(PlaceLoop(container, items,
                     RemoveAt(sorted(items), Len(planned.value) + 1),
                     1, 0, 0, 0, <<>>)) > Len(planned.value)

\* C11: two distinct placements of one returned PlacementSet with the same
\* position_y and position_z have disjoint x-intervals, the items having
\* positive extents.
C11_NoOverlapWithinRow ==
    (pc = "returned" /\ PositiveExtents) =>
        \A i, j \in 1..Len(planned.value) :
            /\ i # j
            /\ planned.value[i].position_y = planned.value[j].position_y
            /\ planned.value[i].position_z = planned.value[j].position_z
            => ~IntervalsOverlap(planned.value[i].position_x,
                                 PlacedItem(planned.value[i]).width,
                                 planned.value[j].position_x,
                                 PlacedItem(planned.value[j]).width)

\* a returned set with two placements in one row and a placement in a
\* later row
C11_Witness ==
    /\ pc = "returned"
    /\ PositiveExtents
    /\ \E i, j, k \in 1..Len(planned.value) :
          /\ i < j
          /\ j < k
          /\ planned.value[i].position_y = planned.value[j].position_y
          /\ planned.value[i].position_z = planned.value[j].position_z
          /\ planned.value[k].position_y > planned.value[j].position_y
          /\ planned.value[k].position_z = planned.value[j].position_z

\* the item does not exceed the container on at least one axis
FitsSomeAxis(item) ==
    \/ item.width <= container.width
    \/ item.height <= container.height
    \/ item.depth <= container.depth

AtOrigin(p) == p.position_x = 0 /\ p.position_y = 0 /\ p.position_z = 0

\* C15: the first item of the processing order is placed at (0,0,0) whenever
\* it fits on at least one axis; the PlacementSet of a non-empty list is
\* empty only when that item exceeds the container on all three axes, and a
\* non-empty PlacementSet starts at the origin.
C15_FirstAtOrigin ==
    (pc = "returned" /\ items # <<>>) =>
        LET first == sorted(items)[1] IN
        /\ FitsSomeAxis(first) =>
              /\ planned.value # <<>>
              /\ planned.value[1].item_id = first.id
              /\ AtOrigin(planned.value[1])
        /\ planned.value = <<>> => ~FitsSomeAxis(first)
        /\ planned.value # <<>> => AtOrigin(planned.value[1])

\* the first item exceeds the container in width and height, not in depth,
\* and is placed at the origin
C15_Witness ==
    /\ pc = "returned"
    /\ planned.value # <<>>
    /\ PlacedItem(planned.value[1]).width > container.width
    /\ PlacedItem(planned.value[1]).height > container.height
    /\ PlacedItem(planned.value[1]).depth <= container.depth
    /\ AtOrigin(planned.value[1])

(* ------------------------- scorer properties --------------------------- *)
InScoreRange(v) == 0 <= v /\ v <= 100000

\* C12: for containers, extents and priorities that are not negative the
\* three scores of a PlacementSet of the planner and the overall score lie in
\* [0, 100].
C12_ScoreBounds ==
    pc = "scored" =>
        /\ InScoreRange(scores[1].space_efficiency)
        /\ InScoreRange(scores[1].accessibility)
        /\ InScoreRange(scores[1].retrieval_time)
        /\ InScoreRange(scores[1].overall_score)

\* scored placements whose items are larger than the container, with an
\* item of priority 0 among them
C12_Witness ==
    /\ pc = "scored"
    /\ container.width * container.height * container.depth > 0
    /\ ItemVolume(items, planned.value)
         > container.width * container.height * container.depth
    /\ \E p \in Range(planned.value) : PlacedItem(p).priority = 0

InScenario == container = ScenarioContainer /\ items = WithIds(ScenarioKinds)

\* C14: in the scenario the planner returns id1 at (0,0,0), id2 at (4,0,0)
\* and id3 at (0,4,0), in this order and unrotated, and space efficiency is
\* 19.2.
C14_Scenario ==
    /\ (InScenario /\ pc \in {"returned", "scored"}) =>
          planned.value =
            << [item_id |-> 1, position_x |-> 0, position_y |-> 0,
                position_z |-> 0, rotation_x |-> 0, rotation_y |-> 0,
                rotation_z |-> 0],
               [item_id |-> 2, position_x |-> 4, position_y |-> 0,
                position_z |-> 0, rotation_x |-> 0, rotation_y |-> 0,
                rotation_z |-> 0],
               [item_id |-> 3, position_x |-> 0, position_y |-> 4,
                position_z |-> 0, rotation_x |-> 0, rotation_y |-> 0,
                rotation_z |-> 0] >>
    /\ (InScenario /\ pc = "scored") => scores[1].space_efficiency = 19200

\* the scenario, planned and scored
C14_Witness == InScenario /\ pc = "scored"

(* ------------------------ handler properties --------------------------- *)
Responded == pc = "responded"

ErrorResponse == Responded /\ response[1].status # 200

\* C4: a call that ends in an error response leaves no StowagePlan of its
\* own behind and leaves every item's position, rotation and container
\* associations as they were before the call.
C4_FailureAtomicity == ErrorResponse => db = before

OverBudget == optimization_time # <<>> /\ optimization_time[1] > Budget

\* C5: a run whose elapsed time exceeds the budget answers with a
\* BudgetExceeded outcome, not the outcome of an internal fault, that carries
\* the elapsed time; it persists no plan and updates no item.
C5_BudgetOutcome ==
    (Responded /\ OverBudget) =>
        /\ response[1].status # 200
        /\ response[1].detail # "Error during optimization"
        /\ response[1].cause.elapsed = optimization_time
        /\ db = before

BudgetRaised == exc # <<>> /\ exc[1].type = "HTTPException"

EmptyTableCall ==
    /\ Responded
    /\ before.items = <<>>
    /\ response[1].detail # "Container not found"

\* the documented scores of an empty PlacementSet
EmptyScores ==
    [space_efficiency |-> 0, accessibility |-> 100000,
     retrieval_time |-> 100000, overall_score |-> 60000]

\* C13 as stated: a call with an empty item list succeeds with an empty
\* PlacementSet, space efficiency 0, accessibility 100, retrieval time 100.
C13_ZeroItems ==
    EmptyTableCall =>
        /\ response[1].status = 200
        /\ planned.called
        /\ planned.value = <<>>
        /\ scores = <<EmptyScores>>

\* C13, amended: the handler answers an empty items table with 404 "No items
\* found to optimize" and neither plans, scores nor persists; the planner
\* and the scorers, called with the empty list, give the empty PlacementSet,
\* space efficiency 0, accessibility 100 and retrieval time 100.
C13_ZeroItemsRejected ==
    EmptyTableCall =>
        /\ response[1].status = 404
        /\ response[1].detail = "No items found to optimize"
        /\ ~planned.called
        /\ scores = <<>>
        /\ db = before
        /\ items = <<>>
        /\ optimize_cargo_placement(container, items).raised = ""
        /\ optimize_cargo_placement(container, items).value = <<>>
        /\ Scores(container, items,
                  optimize_cargo_placement(container, items).value)
              = EmptyScores

\* a call on an empty items table that was answered 404
C13_Witness ==
    /\ EmptyTableCall
    /\ response[1].status = 404
    /\ db.plans = <<>>

Succeeded == Responded /\ response[1].status = 200

\* the placements in the visualization payload of the plan the call saved
SavedPositions == db.plans[Len(db.plans)].visualization_data.item_positions

\* how often the row is associated with the container of the call
Associations(row) ==
    Cardinality({k \in 1..Len(row.containers) : row.containers[k] = container.id})

====
